---- MODULE Spec2Model ----
(***************************************************************************)
(* Perlin-noise benchmark (src/src/main.rs): Noise2DContext and main.      *)
(*                                                                         *)
(* Number model.  An f32 whose magnitude is small (gradient components,    *)
(* offsets inside a cell, dot products, interpolation weights, pixels) is  *)
(* a fixed-point integer: the value v stands for v / Scale, and every      *)
(* multiplication and division rounds to the nearest unit, as every f32    *)
(* operation rounds to the nearest float.  A coordinate (an argument of    *)
(* get, or a lattice origin) is a record [h, c, f].  With h = 0, c is      *)
(* floor(x), an integer of the i32 range, and f the fixed-point fraction   *)
(* x - floor(x).  h = 1 stands for any finite float above the i32 range    *)
(* and h = -1 for any below it (c = f = 0 then); such floats are whole     *)
(* multiples of 256.  i32 values are integers in I32_MIN..I32_MAX.         *)
(***************************************************************************)
EXTENDS Integers, Sequences, FiniteSets, TLC

VARIABLES
    pc,        \* position of the program: "start", "ready", "render", "output", "done", "panicked"
    overflow_checks, \* the build: TRUE when integer overflow panics (debug), FALSE when it wraps (release)
    built,     \* built[i]: Noise2DContext::new() has returned instance i
    ctx,       \* ctx[i]: the fields rgradients, permutations of instance i
    call,      \* the last call made on the interface and what it returned
    sample,    \* sample[i]: the last get(x, y) on instance i and what it returned
    pass,      \* main: the pass counter of the loop  for _ in 0..100
    row,       \* main: y of the running loop
    pixels,    \* main: the array pixels
    writes,    \* writes[k]: how many times pixels[k] has been assigned
    idxs,      \* main: the values idx took in the last row of the output loop
    line,      \* main: the glyphs printed since the last println!()
    out        \* main: the lines finished by println!()

vars == <<pc, overflow_checks, built, ctx, call, sample, pass, row, pixels, writes, idxs, line, out>>

-----------------------------------------------------------------------------
(* Bounds of the model *)

\* how many initial states of the thread-local generator are explored
NumSeeds == 3

\* how many of main's 100 render passes (for _ in 0..100) a run makes
Passes == 2

\* a cell's fractions x - floor(x) that are sampled: the multiples of 1 / FracSteps
FracSteps == 2

\* the largest iteration cap the escape-time iterator is called with
MaxIter == 3

\* the parameters c of the escape-time iterator: both parts go over the halves up to PlaneSpan / 2
PlaneSpan == 4

\* how far around 0, 256, -256 and the ends of the i32 range the integer arguments go
ProbeSpan == 1

\* the two Noise2DContext values a run may construct
Instances == {1, 2}

-----------------------------------------------------------------------------
(* Numbers *)

\* resolution of the fixed-point stand-in for f32: v stands for v / Scale
Scale == 10000

I32_MAX == 2147483647
I32_MIN == -2147483647 - 1

\* floats are all integers from 2^24 on
F32_EXACT == 16777216

IsHuge(o) == o.h # 0

Abs(n) == IF n < 0 THEN 0 - n ELSE n

\* a * b of two f32, rounded to nearest
FMul(a, b) == (a * b + Scale \div 2) \div Scale

\* a / b of two f32, rounded to nearest
FDiv(a, b) == (a * Scale + b \div 2) \div b

\* the distance between neighbouring floats at magnitude a
RECURSIVE Ulp(_)
Ulp(a) == IF a < F32_EXACT THEN 1 ELSE 2 * Ulp(a \div 2)

\* the integer n as the nearest f32, ties to the even mantissa
RoundF32(n) ==
    LET u  == Ulp(Abs(n))
        r  == n % u
        lo == n - r
    IN  IF r = 0 THEN n
        ELSE IF 2 * r < u THEN lo
        ELSE IF 2 * r > u THEN lo + u
        ELSE IF (lo \div u) % 2 = 0 THEN lo ELSE lo + u

\* f32::floor
floor(x) == [h |-> x.h, c |-> x.c, f |-> 0]

\* x0f + 1.0 of an integer-valued f32 (a float beyond the i32 range absorbs the 1.0)
AddOneF32(o) == IF IsHuge(o) THEN o ELSE [h |-> 0, c |-> RoundF32(o.c + 1), f |-> o.f]

\* a - b of a coordinate and one of the origins of its cell
FSub(a, b) ==
    IF IsHuge(a) \/ IsHuge(b) THEN 0
    ELSE (a.c - b.c) * Scale + (a.f - b.f)

\* x0f as i32: the cast saturates
F32AsI32(o) ==
    IF o.h > 0 THEN I32_MAX
    ELSE IF o.h < 0 THEN I32_MIN
    ELSE o.c

\* a & b of two i32 in two's complement
\* (what a % (b + 1) gives instead: Rust's remainder takes the sign of a)
BitAndRem(a, b) == IF a < 0 THEN 0 - ((((0 - (a + 1)) % (b + 1)) + 1) % (b + 1)) ELSE a % (b + 1)
RECURSIVE BitAnd(_, _)
BitAnd(a, b) ==
    IF a = 0 \/ b = 0 THEN 0
    ELSE IF a = -1 THEN b
    ELSE IF b = -1 THEN a
    ELSE (a % 2) * (b % 2) + 2 * BitAnd(a \div 2, b \div 2)

\* a + b of two i32: the sum, or the fact that it left the i32 range
AddOverflows(a, b) ==
    \/ b > 0 /\ a > I32_MAX - b
    \/ b < 0 /\ a < I32_MIN - b
WrappingAdd(a, b) ==
    IF b > 0 /\ a > I32_MAX - b THEN I32_MIN + (b - 1 - (I32_MAX - a))
    ELSE IF b < 0 /\ a < I32_MIN - b THEN I32_MAX + (b + 1 + (a - I32_MIN))
    ELSE a + b

-----------------------------------------------------------------------------
(* lerp, smooth, gradient *)

lerp(a, b, v) == FMul(a, Scale - v) + FMul(b, v)

\* (the polynomial with the factor 2 dropped)
smooth_typo(v) == FMul(FMul(v, v), 3 * Scale - v)
smooth(v) == FMul(FMul(v, v), 3 * Scale - 2 * v)

gradient(orig, grad, p) == FMul(FSub(p.x, orig.x), grad.x) + FMul(FSub(p.y, orig.y), grad.y)

-----------------------------------------------------------------------------
(* The random source: thread_rng() is a generator whose starting state the *)
(* program does not choose.  It is a linear congruential generator here,   *)
(* started in any of NumSeeds states.                                      *)

Seeds == 1..NumSeeds

StepRng(s) == (75 * s + 74) % 65537

\* the state n draws after s
RECURSIVE RngAt(_, _)
RngAt(s, n) ==
    IF n = 0 THEN s
    ELSE IF n = 1 THEN StepRng(s)
    ELSE CHOOSE t \in {RngAt(half, n - n \div 2) : half \in {RngAt(s, n \div 2)}} : TRUE

\* r.gen::<f32>() lies in [0, 1): here the number of 32nds of a turn that PI * 2.0 * r.gen() makes
gen_f32(s) == (s * 32) \div 65537

\* the index the shuffle draws below ubound
gen_index(s, ubound) == (s * ubound) \div 65537

\* cos of k 32nds of a turn, k in 0..8
CosQuarter == <<10000, 9808, 9239, 8315, 7071, 5556, 3827, 1951, 0>>

cos(a) ==
    IF a <= 8 THEN CosQuarter[a + 1]
    ELSE IF a <= 16 THEN 0 - CosQuarter[16 - a + 1]
    ELSE IF a <= 24 THEN 0 - CosQuarter[a - 16 + 1]
    ELSE CosQuarter[32 - a + 1]

sin(a) == cos((a + 24) % 32)

random_gradient(s) == LET v == gen_f32(s) IN [x |-> cos(v), y |-> sin(v)]

-----------------------------------------------------------------------------
(* Noise2DContext *)

TableIndex == 0..255

\* (a swap that forgets the second store)
swap_lossy(p, i, j) == [p EXCEPT ![i] = p[j]]
swap(p, i, j) == [p EXCEPT ![i] = p[j], ![j] = p[i]]

\* permutations.shuffle(&mut rng): for i in (1..len).rev() { swap(i, gen_index(i + 1)) },
\* here for i from hi down to lo; draws[i] is the generator state the step for i sees
RECURSIVE shuffle(_, _, _, _)
shuffle(p, hi, lo, draws) ==
    IF hi < lo THEN p
    ELSE IF hi = lo THEN swap(p, hi, gen_index(draws[hi], hi + 1))
    ELSE LET mid == (hi + lo) \div 2
         IN  CHOOSE q \in {shuffle(upper, mid, lo, draws) :
                              upper \in {shuffle(p, hi, mid + 1, draws)}} : TRUE

\* Noise2DContext::new(), seed being the state thread_rng() is in
new(seed) ==
    LET gdraw == [i \in TableIndex |-> RngAt(seed, i + 1)]
        sdraw == [i \in 1..255 |-> RngAt(seed, 256 + (256 - i))]
        ident == [i \in TableIndex |-> i]
    IN  [rgradients   |-> [i \in TableIndex |-> random_gradient(gdraw[i])],
         permutations |-> shuffle(ident, 255, 1, sdraw)]

\* the tables before new() has filled them
Blank == [rgradients   |-> [i \in TableIndex |-> [x |-> 0, y |-> 0]],
          permutations |-> [i \in TableIndex |-> 0]]

Perm(self) == ctx[self].permutations
Grad(self) == ctx[self].rgradients

\* (a hash that mixes in which instance is asked)
get_gradient_salted(self, x, y) ==
    LET px  == BitAnd(x, 255)
        py  == BitAnd(y, 255)
        sum == Perm(self)[px] + Perm(self)[py] + self
        gi  == BitAnd(sum, 255)
    IN  [ok |-> TRUE, px |-> px, py |-> py, sum |-> sum, gi |-> gi, v |-> Grad(self)[gi]]

\* get_gradient with what it indexed: px, py index permutations, gi indexes rgradients;
\* ok is FALSE when an index is out of bounds or the sum overflows (the call panics)
get_gradient(self, x, y) ==
    LET px  == BitAnd(x, 255)
        py  == BitAnd(y, 255)
        pok == px \in TableIndex /\ py \in TableIndex
        sum == IF pok THEN Perm(self)[px] + Perm(self)[py] ELSE 0
        sok == pok /\ ~AddOverflows(Perm(self)[px], Perm(self)[py])
        gi  == BitAnd(sum, 255)
        ok  == sok /\ gi \in TableIndex
    IN  [ok |-> ok, px |-> px, py |-> py, sum |-> sum, gi |-> gi,
         v  |-> IF ok THEN Grad(self)[gi] ELSE [x |-> 0, y |-> 0]]

\* x0 + 1: the sum; ok is FALSE when the build checks overflow and the sum overflows
AddOneI32(a) ==
    IF AddOverflows(a, 1)
    THEN [ok |-> ~overflow_checks, overflow |-> TRUE, v |-> WrappingAdd(a, 1)]
    ELSE [ok |-> TRUE, overflow |-> FALSE, v |-> a + 1]

\* get_gradients: the four gradients, the four origins, and the integer corners hashed
get_gradients(self, x, y) ==
    LET x0f == floor(x)
        y0f == floor(y)
        x1f == AddOneF32(x0f)
        y1f == AddOneF32(y0f)
        x0  == F32AsI32(x0f)
        y0  == F32AsI32(y0f)
        x1  == AddOneI32(x0)
        y1  == AddOneI32(y0)
        g00 == get_gradient(self, x0, y0)
        g10 == get_gradient(self, x1.v, y0)
        g01 == get_gradient(self, x0, y1.v)
        g11 == get_gradient(self, x1.v, y1.v)
    IN  [ok        |-> x1.ok /\ y1.ok /\ g00.ok /\ g10.ok /\ g01.ok /\ g11.ok,
         overflow  |-> x1.overflow \/ y1.overflow,
         gradients |-> (0 :> g00.v @@ 1 :> g10.v @@ 2 :> g01.v @@ 3 :> g11.v),
         origins   |-> (0 :> [x |-> x0f, y |-> y0f] @@ 1 :> [x |-> x1f, y |-> y0f] @@
                        2 :> [x |-> x0f, y |-> y1f] @@ 3 :> [x |-> x1f, y |-> y1f]),
         corners   |-> (0 :> [x |-> x0, y |-> y0] @@ 1 :> [x |-> x1.v, y |-> y0] @@
                        2 :> [x |-> x0, y |-> y1.v] @@ 3 :> [x |-> x1.v, y |-> y1.v])]

\* the body of get once the gradients and origins are fetched
interp(gradients, origins, p) ==
    LET v0  == gradient(origins[0], gradients[0], p)
        v1  == gradient(origins[1], gradients[1], p)
        v2  == gradient(origins[2], gradients[2], p)
        v3  == gradient(origins[3], gradients[3], p)
        fx  == smooth(FSub(p.x, origins[0].x))
        vx0 == lerp(v0, v1, fx)
        vx1 == lerp(v2, v3, fx)
        fy  == smooth(FSub(p.y, origins[0].y))
    IN  lerp(vx0, vx1, fy)

get(self, x, y) ==
    LET p  == [x |-> x, y |-> y]
        gs == get_gradients(self, x, y)
    IN  [ok |-> gs.ok, overflow |-> gs.overflow,
         v  |-> IF gs.ok THEN interp(gs.gradients, gs.origins, p) ELSE 0,
         origins |-> gs.origins, corners |-> gs.corners]

\* (get taking &mut self and reordering the table it hashes with)
after_get_mut(self) == [ctx EXCEPT ![self].permutations = swap(@, 0, 1)]
\* get takes &self: the fields after the call
after_get(self) == ctx

-----------------------------------------------------------------------------
(* main *)

COLS == 80
ROWS == 25

symbols == (0 :> " " @@ 1 :> "U+2591" @@ 2 :> "U+2592" @@ 3 :> "U+2593" @@ 4 :> "U+2588" @@ 5 :> "U+2588")

Cells == 0..(ROWS * COLS - 1)

\* (the index with the row stride taken from the wrong constant)
PixelIndexRows(y, x) == y * ROWS + x
\* y * COLS + x
PixelIndex(y, x) == y * COLS + x

\* n as f32 * 0.1
CoordOf(n) == [h |-> 0, c |-> n \div 10, f |-> (n % 10) * (Scale \div 10)]

\* v * 0.5 + 0.5
remap(v) == FMul(v, Scale \div 2) + Scale \div 2

\* q as usize: truncates, and saturates below at 0
F32AsUsize(q) == IF q < 0 THEN 0 ELSE q \div Scale

\* (the index for a ramp of ten glyphs)
glyph_index_tenths(p) == F32AsUsize(FDiv(p, Scale \div 10))
\* (pixel / 0.2) as usize
glyph_index(p) == F32AsUsize(FDiv(p, Scale \div 5))

\* println!("running on {} {}", OS, ARCH): the line as a row of one item
banner == <<"running on OS ARCH">>

-----------------------------------------------------------------------------
(* Initial state *)

NoCall == [op |-> "none"]

Init ==
    /\ pc = "start"
    /\ overflow_checks \in BOOLEAN
    /\ built = [i \in Instances |-> FALSE]
    /\ ctx = [i \in Instances |-> Blank]
    /\ call = NoCall
    /\ sample = [i \in Instances |-> NoCall]
    /\ pass = 0
    /\ row = 0
    /\ pixels = [k \in Cells |-> 0]
    /\ writes = [k \in Cells |-> 0]
    /\ idxs = <<>>
    /\ line = <<>>
    /\ out = <<>>

mainVars == <<pass, row, pixels, writes, idxs, line, out>>

-----------------------------------------------------------------------------
(* main: let n2d = Noise2DContext::new(), the render passes, the output loop *)

MainNew ==
    /\ pc = "start"
    /\ \E seed \in Seeds : ctx' = [ctx EXCEPT ![1] = new(seed)]
    /\ built' = [built EXCEPT ![1] = TRUE]
    /\ out' = Append(out, banner)
    /\ pc' = "render"
    /\ UNCHANGED <<overflow_checks, call, sample, pass, row, pixels, writes, idxs, line>>

Min(S) == CHOOSE m \in S : \A n \in S : m <= n
Max(S) == CHOOSE m \in S : \A n \in S : n <= m

\* one row of a render pass: the loop  for x in 0..COLS  for the current y, and the loop
\* headers that follow it.  The row stops at the first x at which get or the store panics.
RenderRow ==
    /\ pc = "render"
    /\ \E stop \in {Min({IF get(1, CoordOf(x), CoordOf(row)).ok /\ PixelIndex(row, x) \in Cells
                         THEN COLS ELSE x : x \in 0..(COLS - 1)})} :
         LET at    == {PixelIndex(row, x) : x \in 0..(stop - 1)}
             xs(k) == {x \in 0..(stop - 1) : PixelIndex(row, x) = k}
             v(x)  == get(1, CoordOf(x), CoordOf(row)).v
         IN  /\ pixels' = [k \in at |-> remap(v(Max(xs(k))))] @@ pixels
             /\ writes' = [k \in at |-> writes[k] + Cardinality(xs(k))] @@ writes
             /\ IF stop < COLS
                THEN /\ pc' = "panicked"
                     /\ UNCHANGED <<pass, row>>
                ELSE IF row + 1 < ROWS
                THEN /\ row' = row + 1
                     /\ UNCHANGED <<pc, pass>>
                ELSE /\ row' = 0
                     /\ pass' = pass + 1
                     /\ pc' = IF pass + 1 < Passes THEN "render" ELSE "output"
    /\ ctx' = after_get(1)
    /\ UNCHANGED <<overflow_checks, built, call, sample, idxs, line, out>>

\* one row of the output loop: print!("{}", symbols[idx]) for x in 0..COLS, then println!().
\* The row stops at the first x whose idx is no index of symbols.
EmitRow ==
    /\ pc = "output"
    /\ \E stop \in {Min({IF glyph_index(pixels[PixelIndex(row, x)]) \in DOMAIN symbols
                         THEN COLS ELSE x : x \in 0..(COLS - 1)})} :
         LET i(x) == glyph_index(pixels[PixelIndex(row, x)])
             row_glyphs == [n \in 1..stop |-> symbols[i(n - 1)]]
         IN  IF stop < COLS
             THEN /\ idxs' = [n \in 1..(stop + 1) |-> i(n - 1)]
                  /\ line' = row_glyphs
                  /\ pc' = "panicked"
                  /\ UNCHANGED <<row, out>>
             ELSE /\ idxs' = [n \in 1..COLS |-> i(n - 1)]
                  /\ line' = <<>>
                  /\ out' = Append(out, row_glyphs)
                  /\ row' = row + 1
                  /\ pc' = IF row + 1 < ROWS THEN "output" ELSE "done"
    /\ UNCHANGED <<overflow_checks, built, ctx, call, sample, pass, pixels, writes>>

Next == MainNew \/ RenderRow \/ EmitRow

Spec == Init /\ [][Next]_vars

\* main has neither returned nor panicked
Running == pc \in {"start", "render", "output"}

\* main is the only thread and runs until it returns or panics: weak fairness of Next.
\* MainNew, RenderRow and EmitRow are enabled exactly where their test of pc holds (the
\* rest of each is assignment), so ENABLED <<Next>>_vars is Running, and WF_vars(Next),
\* which is []<>(~ENABLED <<Next>>_vars) \/ []<><<Next>>_vars, is written with it
FairSpec == Spec /\ ([]<>(~Running) \/ []<><<Next>>_vars)

-----------------------------------------------------------------------------
(* Calls on Noise2DContext from any caller.  The functions are applied to   *)
(* arguments drawn from bounded sets, once per instance and run.           *)

\* let n2d = Noise2DContext::new(); every instance is made before the first call on one
New(self) ==
    /\ pc \in {"start", "ready"}
    /\ ~built[self]
    /\ call.op = "none"
    /\ \A i \in Instances : sample[i].op = "none"
    /\ \E seed \in Seeds : ctx' = [ctx EXCEPT ![self] = new(seed)]
    /\ built' = [built EXCEPT ![self] = TRUE]
    /\ pc' = "ready"
    /\ UNCHANGED <<overflow_checks, call, sample, mainVars>>

GetGradient(self, x, y) ==
    /\ pc = "ready"
    /\ built[self]
    /\ call.op = "none"
    /\ LET r == get_gradient(self, x, y)
       IN  /\ call' = [op |-> "get_gradient", self |-> self, x |-> x, y |-> y, ret |-> r]
           /\ pc' = IF r.ok THEN "ready" ELSE "panicked"
    /\ UNCHANGED <<overflow_checks, built, ctx, sample, mainVars>>

Get(self, x, y) ==
    /\ pc = "ready"
    /\ built[self]
    /\ sample[self].op = "none"
    /\ LET r == get(self, x, y)
       IN  /\ sample' = [sample EXCEPT ![self] = [op |-> "get", x |-> x, y |-> y, ret |-> r]]
           /\ pc' = IF r.ok THEN "ready" ELSE "panicked"
    /\ ctx' = after_get(self)
    /\ UNCHANGED <<overflow_checks, built, call, mainVars>>

\* the cell left of the line x = k, evaluated on the line, and get on the line
EdgeX(self, k, y) ==
    /\ pc = "ready"
    /\ built[self]
    /\ call.op = "none"
    /\ LET onLine == [h |-> 0, c |-> k, f |-> 0]
           p      == [x |-> onLine, y |-> y]
           cell   == get_gradients(self, [h |-> 0, c |-> k - 1, f |-> 0], y)
           right  == get(self, onLine, y)
       IN  call' = [op |-> "edge_x", self |-> self, k |-> k, along |-> y,
                    ok |-> cell.ok /\ right.ok,
                    left  |-> IF cell.ok THEN interp(cell.gradients, cell.origins, p) ELSE 0,
                    right |-> right.v]
    /\ UNCHANGED <<pc, overflow_checks, built, ctx, sample, mainVars>>

\* the cell below the line y = k, evaluated on the line, and get on the line
EdgeY(self, x, k) ==
    /\ pc = "ready"
    /\ built[self]
    /\ call.op = "none"
    /\ LET onLine == [h |-> 0, c |-> k, f |-> 0]
           p      == [x |-> x, y |-> onLine]
           cell   == get_gradients(self, x, [h |-> 0, c |-> k - 1, f |-> 0])
           right  == get(self, x, onLine)
       IN  call' = [op |-> "edge_y", self |-> self, k |-> k, along |-> x,
                    ok |-> cell.ok /\ right.ok,
                    left  |-> IF cell.ok THEN interp(cell.gradients, cell.origins, p) ELSE 0,
                    right |-> right.v]
    /\ UNCHANGED <<pc, overflow_checks, built, ctx, sample, mainVars>>

-----------------------------------------------------------------------------
(* ComplexFieldEvaluator, section 4.1 of the specification.  src/ holds no   *)
(* code of it; it is written down from the specification's contract.       *)
(* A complex number is [re, im] in fixed point: v stands for v / Unit.     *)

Unit == 1000

CMul(a, b) == (a * b + Unit \div 2) \div Unit

\* |z|^2
NormSq(z) == CMul(z.re, z.re) + CMul(z.im, z.im)

\* z^2 + c
StepOrbit(z, c) == [re |-> CMul(z.re, z.re) - CMul(z.im, z.im) + c.re,
                    im |-> 2 * CMul(z.re, z.im) + c.im]

\* the loop from z_n = z: while n < max_iter and |z|^2 <= 4, apply the map and count; then
\* max_iter - n when the loop left before the cap, 0 when it reached the cap
RECURSIVE iterate_from(_, _, _, _)
iterate_from(z, c, n, max_iter) ==
    IF n < max_iter /\ NormSq(z) <= 4 * Unit
    THEN iterate_from(StepOrbit(z, c), c, n + 1, max_iter)
    ELSE IF n < max_iter THEN max_iter - n ELSE 0

\* (the textbook map, whose orbit starts at zero)
iterate_from_zero(c, max_iter) == iterate_from([re |-> 0, im |-> 0], c, 0, max_iter)
\* iterate(c, max_iter): the orbit starts at z_0 = c
iterate(c, max_iter) == iterate_from(c, c, 0, max_iter)

Iterate(c, max_iter) ==
    /\ pc = "start"
    /\ call.op = "none"
    /\ call' = [op |-> "iterate", c |-> c, max_iter |-> max_iter, ret |-> iterate(c, max_iter)]
    /\ UNCHANGED <<pc, overflow_checks, built, ctx, sample, mainVars>>

-----------------------------------------------------------------------------
(* The arguments the calls are made with *)

\* parameters c inside and outside the disc |c|^2 <= 4
Plane == {[re |-> a * (Unit \div 2), im |-> b * (Unit \div 2)] :
             a \in (0 - PlaneSpan)..PlaneSpan, b \in (0 - PlaneSpan)..PlaneSpan}

\* i32 arguments of get_gradient
I32Args ==
    {b + d : b \in {0, 256, -256}, d \in (0 - ProbeSpan)..ProbeSpan}
        \cup {I32_MIN + d : d \in 0..ProbeSpan} \cup {I32_MAX - d : d \in 0..ProbeSpan}

Fractions == {(k * Scale) \div FracSteps : k \in 0..(FracSteps - 1)}

\* cells in which floats have fractions, around the wrap of the table index
SmallCells == {b + d : b \in {0, 256, -256}, d \in (0 - ProbeSpan)..0}

\* whole floats where f32 leaves the integers exact, where it stops doing so, and at the
\* ends of the i32 range (2147483520 is the largest f32 below 2^31)
WholeCells == {F32_EXACT - 1, F32_EXACT, F32_EXACT + 2, 2147483520, I32_MIN}

\* f32 arguments of get
Coords ==
    {[h |-> 0, c |-> c, f |-> f] : c \in SmallCells, f \in Fractions}
        \cup {[h |-> 0, c |-> c, f |-> 0] : c \in WholeCells}
        \cup {[h |-> 1, c |-> 0, f |-> 0], [h |-> -1, c |-> 0, f |-> 0]}

\* the lines x = k, y = k with a cell of floats on either side
EdgeLines == {b + d : b \in {0, 256, -256}, d \in 0..ProbeSpan} \cup {F32_EXACT}

\* the arguments two instances are compared on
PairCoords == {[h |-> 0, c |-> c, f |-> f] : c \in {-1, 0}, f \in Fractions}

GradNext ==
    \/ New(1)
    \/ \E x \in I32Args, y \in I32Args : GetGradient(1, x, y)

GradSpec == Init /\ [][GradNext]_vars

SampleNext ==
    \/ New(1)
    \/ \E x \in Coords, y \in Coords : Get(1, x, y)

SampleSpec == Init /\ [][SampleNext]_vars

EdgeNext ==
    \/ New(1)
    \/ \E k \in EdgeLines, y \in Coords : EdgeX(1, k, y)
    \/ \E x \in Coords, k \in EdgeLines : EdgeY(1, x, k)

EdgeSpec == Init /\ [][EdgeNext]_vars

PairNext ==
    \/ \E i \in Instances : New(i)
    \/ \E i \in Instances : \E x \in PairCoords, y \in PairCoords : Get(i, x, y)

PairSpec == Init /\ [][PairNext]_vars

IterNext == \E c \in Plane, max_iter \in 0..MaxIter : Iterate(c, max_iter)

IterSpec == Init /\ [][IterNext]_vars

-----------------------------------------------------------------------------
(* Claims *)

\* p maps 0..255 onto 0..255; with 256 entries that is: every value appears exactly once
IsBijection(p) ==
    /\ DOMAIN p = TableIndex
    /\ \A i \in TableIndex : p[i] \in TableIndex
    /\ {p[i] : i \in TableIndex} = TableIndex

\* C1: once new() has returned, permutations has 256 entries, each in 0..255, and every
\* value 0..255 appears exactly once, whatever the shuffle drew
C1_PermutationIsBijection == \A self \in Instances : built[self] => IsBijection(Perm(self))

C1_Witness == built[1] /\ \E i \in TableIndex : Perm(1)[i] # i

\* C2: get_gradient(ix, iy) returns rgradients[(permutations[ix & 255] + permutations[iy & 255]) & 255]
\* for every pair of i32, negative ones included; the three indices lie in 0..255 (x & 255
\* is x mod 256) and the sum does not overflow
C2_GradientLookup ==
    call.op = "get_gradient" =>
        LET r   == call.ret
            px  == call.x % 256
            py  == call.y % 256
            sum == Perm(call.self)[px] + Perm(call.self)[py]
        IN  /\ pc # "panicked"
            /\ r.ok
            /\ r.px = px /\ r.py = py /\ r.px \in TableIndex /\ r.py \in TableIndex
            /\ r.sum = sum /\ sum \in 0..510
            /\ r.gi = sum % 256 /\ r.gi \in TableIndex
            /\ r.v = Grad(call.self)[sum % 256]

C2_Witness ==
    /\ call.op = "get_gradient"
    /\ call.x < 0
    /\ call.y = I32_MAX
    /\ call.ret.ok
    /\ call.ret.sum > 255

\* the low eight bits of the lattice corner floor(x) + i
RefLow8(o, i) == IF IsHuge(o) THEN i % 256 ELSE (o.c + i) % 256

\* the gradient of the lattice corner (floor(x) + i, floor(y) + j)
RefGradient(self, x, i, y, j) ==
    Grad(self)[(Perm(self)[RefLow8(x, i)] + Perm(self)[RefLow8(y, j)]) % 256]

\* the dot product of that gradient with the offset (x - (x0 + i), y - (y0 + j))
RefDot(self, x, i, y, j) ==
    LET g == RefGradient(self, x, i, y, j)
    IN  FMul(x.f - i * Scale, g.x) + FMul(y.f - j * Scale, g.y)

RefValue(self, x, y) ==
    LET fx == smooth(x.f)
        fy == smooth(y.f)
    IN  lerp(lerp(RefDot(self, x, 0, y, 0), RefDot(self, x, 1, y, 0), fx),
             lerp(RefDot(self, x, 0, y, 1), RefDot(self, x, 1, y, 1), fx), fy)

\* the integer corner hashed is the float origin the offset is taken from
CornersMatchOrigins(r) ==
    \A k \in 0..3 :
        /\ ~IsHuge(r.origins[k].x) /\ r.origins[k].x.c = r.corners[k].x
        /\ ~IsHuge(r.origins[k].y) /\ r.origins[k].y.c = r.corners[k].y

\* C3: for every (x, y), get(x, y) is lerp(lerp(v00, v10, fx), lerp(v01, v11, fx), fy) over the
\* lattice corners (floor(x) + i, floor(y) + j), with both weights anchored at corner
\* (x0, y0), and the integer corner hashed always matches the float origin of the offset
C3_GetFormula ==
    \A self \in Instances :
        sample[self].op = "get" =>
            /\ sample[self].ret.ok
            /\ sample[self].ret.v = RefValue(self, sample[self].x, sample[self].y)
            /\ CornersMatchOrigins(sample[self].ret)

\* where C3 does hold: coordinates whose cell has both its origins among the floats
\* and its corners among the i32
Ordinary(x) == ~IsHuge(x) /\ Abs(x.c + 1) < F32_EXACT
GetFormulaOnOrdinary ==
    \A self \in Instances :
        (sample[self].op = "get" /\ Ordinary(sample[self].x) /\ Ordinary(sample[self].y)) =>
            /\ sample[self].ret.ok
            /\ sample[self].ret.v = RefValue(self, sample[self].x, sample[self].y)
            /\ CornersMatchOrigins(sample[self].ret)

\* C4: get is total: for every finite (x, y) it returns, with no panic and no integer
\* overflow in x0 + 1 or y0 + 1, also when floor(x) is at or beyond the ends of the i32 range
C4_GetIsTotal ==
    /\ pc # "panicked"
    /\ \A self \in Instances :
           sample[self].op = "get" => sample[self].ret.ok /\ ~sample[self].ret.overflow

\* the value on a cell edge, from the two gradients of the lattice points on the edge:
\* d is the offset along the edge, g0 and g1 the gradient components along the edge
RefEdge(d, g0, g1) == lerp(FMul(d, g0), FMul(d - Scale, g1), smooth(d))

C7_TablesImmutable ==
    [][ /\ \A self \in Instances : built[self] => (built'[self] /\ ctx'[self] = ctx[self])
        /\ pc = "render" => UNCHANGED <<overflow_checks, built, ctx, call, sample, idxs, line, out>>
      ]_vars

C7_Witness == pc = "done" /\ built[1] /\ pass = Passes

\* the output: the banner, then ROWS rows of COLS glyphs of the ramp
Emitted ==
    /\ Len(out) = 1 + ROWS
    /\ out[1] = banner
    /\ \A r \in 2..(1 + ROWS) :
           Len(out[r]) = COLS /\ \A n \in 1..COLS : \E g \in DOMAIN symbols : out[r][n] = symbols[g]

\* C8: the run terminates: every loop being bounded, it reaches its final state, having
\* assigned every one of the ROWS * COLS pixels exactly once in each pass, and having printed
\* exactly ROWS rows of exactly COLS glyphs
C8_RenderTerminates ==
    /\ [](pc = "render" =>
            \A k \in Cells : writes[k] = IF k < row * COLS THEN pass + 1 ELSE pass)
    /\ [](pc \in {"output", "done"} => \A k \in Cells : writes[k] = Passes)
    /\ [](pc = "done" => Emitted /\ line = <<>>)
    /\ <>[](pc = "done")

C8_Witness == pc = "done" /\ Emitted /\ \A k \in Cells : writes[k] = Passes

\* z_n of the orbit z_0 = c, z_{n+1} = z_n^2 + c
RECURSIVE Orbit(_, _)
Orbit(c, n) == IF n = 0 THEN c ELSE StepOrbit(Orbit(c, n - 1), c)

\* the orbit escapes at step n: |z_m|^2 <= 4 for every m < n, and |z_n|^2 > 4
EscapesAt(c, n) == (\A m \in 0..(n - 1) : NormSq(Orbit(c, m)) <= 4 * Unit) /\ NormSq(Orbit(c, n)) > 4 * Unit

\* C9: iterate(c, max_iter) is max_iter - n when the orbit z_0 = c, z_{n+1} = z_n^2 + c escapes
\* (|z_n|^2 > 4) at a step n < max_iter, and 0 when it does not; so it lies in 0..max_iter, it
\* is max_iter when |c|^2 > 4, and it is 0 when max_iter = 0
C9_IterateResult ==
    call.op = "iterate" =>
        /\ \A n \in 0..(call.max_iter - 1) : EscapesAt(call.c, n) => call.ret = call.max_iter - n
        /\ (\A n \in 0..(call.max_iter - 1) : ~EscapesAt(call.c, n)) => call.ret = 0
        /\ call.ret \in 0..call.max_iter
        /\ NormSq(call.c) > 4 * Unit => call.ret = call.max_iter
        /\ call.max_iter = 0 => call.ret = 0

C9_Witness ==
    /\ call.op = "iterate"
    /\ call.max_iter = MaxIter
    /\ NormSq(call.c) <= 4 * Unit
    /\ call.ret \in 1..(MaxIter - 1)

\* C10: in the output loop idx = (pixel / 0.2) as usize is an index of the six symbols for
\* every cell, so symbols[idx] is never out of bounds; a pixel of exactly 1.0 gives 5 and a
\* negative pixel gives 0
C10_GlyphIndexInRange ==
    /\ pc # "panicked"
    /\ \A n \in 1..Len(idxs) : idxs[n] \in DOMAIN symbols
    /\ DOMAIN symbols = 0..5
    /\ glyph_index(Scale) = 5
    /\ \A p \in {-1, 0 - Scale \div 5, 0 - Scale} : glyph_index(p) = 0

C10_Witness == pc = "done" /\ Len(idxs) = COLS /\ \E n \in 1..COLS : idxs[n] > 0

====
